---- MODULE Spec2Model ----
(***************************************************************************)
(* A model of the back end of 8cc: the stackable hash table of map.c and   *)
(* the translator, register cache and emitter of codegen.c.                *)
(***************************************************************************)
EXTENDS Integers, Sequences, FiniteSets, TLC

VARIABLES
    maps,     \* map.c: table id -> Map struct (parent, key, val, size, nelem, nused)
    bind,     \* history: table id -> key -> value of the latest put not followed by a remove (0: none)
    lastop,   \* history: the last map operation, <<name, table, key, value>>
    nops,     \* history: the number of map operations so far
    iter,     \* map.c: the MapIter struct of the iteration under way (map, cur, i)
    itval,    \* the caller's variable that map_next writes the value through val to
    yielded,  \* history: the <<key, value>> pairs map_next returned since map_iter
    reg2var,  \* codegen.c: the register cache, slot 0..5 -> Regmap (v, reg)
    vars,     \* codegen.c: the vector of computed Vars (id, off, spilled)
    lastLines,\* the assembly lines written by the last step
    resolves, \* history: the regname calls of the last step (Var, register, Var evicted, Vars held)
    recency,  \* history: the resolved Vars, most recently resolved first
    nres,     \* history: the number of regname calls so far
    victim,   \* history: the Var the last regname call evicted (0: none)
    toplevels,\* the argument of the call of codegen under way
    todo,     \* the arguments of the calls of codegen the process makes after this one
    entry,    \* history: the sizes of the statics when the call under way began
    pc,       \* the position of codegen: start, compile, print, done, fatal, abort
    mems,     \* codegen.c: the vector of Mems (off, size)
    lvars,    \* codegen.c: the Map from variable names to Mems
    insts,    \* codegen.c: the vector of Insts
    offset,   \* codegen.c: static int offset
    id,       \* codegen.c: static int id of make_var
    ip,       \* print: the index of the next Inst
    nout,     \* the number of lines this call of codegen wrote to out
    subN,     \* the N of the "sub $N, %rsp" line this call wrote (-1: not written)
    addN,     \* the N of the "add $N, %rsp" line this call wrote (-1: not written)
    nspill,   \* the number of lines this call wrote with the "# spill" comment
    mach,     \* the machine running the lines written: registers and stack slots
    vval,     \* the value each computed Var has by the lines run so far (Unwritten: none yet)
    mval,     \* the value each Mem has by the lines run so far
    readOK    \* whether every register the last step's lines read held its Var's value

mapVars == <<maps, bind, lastop, nops, iter, itval, yielded>>
regVars == <<reg2var, vars, lastLines, resolves, recency, nres, victim>>
cgVars == <<toplevels, todo, entry, pc, mems, lvars, insts, offset, id, ip, nout, subN, addN,
            nspill>>
machVars == <<mach, vval, mval, readOK>>
allVars == <<mapVars, regVars, cgVars, machVars>>

----------------------------------------------------------------------------
(* map.c *)

INIT_SIZE == 16

\* A NULL key pointer (an untouched slot) and the TOMBSTONE pointer (void *)-1.
NULLKEY == <<>>
TOMBSTONE == <<-1>>
\* A NULL value pointer.
NULL == 0

\* Bounds of the map model.
NVals == 2
PreFill == 9
MaxOps == 6

\* Keys are C strings, modelled as their byte sequences.
\* "p", "P" and "0" share the low four bits 0, so hash to the same slot of a
\* 16-slot table (slot 15, the last one: their probe sequences wrap around);
\* "e" hashes to slot 0, the second slot of that probe sequence.
FreeKeys == { <<112>>, <<80>>, <<48>>, <<101>> }
\* "a","b","c","d","f","g","h","i","j","k","l","m","o": pairwise distinct slots 2..14.
FillKeys == << <<97>>, <<98>>, <<99>>, <<100>>, <<102>>, <<103>>, <<104>>,
               <<105>>, <<106>>, <<107>>, <<108>>, <<109>>, <<111>> >>
FillSet == { FillKeys[i] : i \in 1..Len(FillKeys) }
Keys == FreeKeys \cup FillSet
Vals == 1..NVals

RECURSIVE Xor(_, _, _)
Xor(a, b, n) ==
    IF n = 0 THEN 0
    ELSE (((a % 2) + (b % 2)) % 2) + 2 * Xor(a \div 2, b \div 2, n - 1)

\* One round of the FNV loop on a 32-bit r kept as two 16-bit halves:
\* r ^= c; r *= 16777619 (= 2^24 + 403), modulo 2^32.
FnvStep(r, c) ==
    LET lo  == (r.lo \div 256) * 256 + Xor(r.lo % 256, c, 8)
        m   == lo * 403
    IN  [ lo |-> m % 65536,
          hi |-> ((m \div 65536) + r.hi * 403 + (lo % 256) * 256) % 65536 ]

RECURSIVE FnvLoop(_, _, _)
FnvLoop(r, p, i) ==
    IF i > Len(p) THEN r ELSE FnvLoop(FnvStep(r, p[i]), p, i + 1)

\* uint32_t hash(char *p), r = 2166136261 = 0x811c9dc5
hash(p) == FnvLoop([hi |-> 33052, lo |-> 40389], p, 1)

\* hash(key) & mask with mask = size - 1, size a power of two up to 2^16
HashIdx(key, size) == hash(key).lo % size

do_make_map(parent, size) ==
    [ parent |-> parent,
      alloc  |-> TRUE,
      key    |-> [i \in 0..(size - 1) |-> NULLKEY],
      val    |-> [i \in 0..(size - 1) |-> NULL],
      size   |-> size,
      nelem  |-> 0,
      nused  |-> 0 ]

make_map == do_make_map(0, INIT_SIZE)

make_map_parent(parent) == do_make_map(parent, INIT_SIZE)

\* The inner loop of maybe_rehash: the first slot of k from j on that is NULL;
\* -1 when the loop would never end (no NULL slot in k).
RECURSIVE RehashSlot(_, _, _, _)
RehashSlot(k, j, mask, n) ==
    IF n > mask + 1 THEN -1
    ELSE IF k[j] # NULLKEY THEN RehashSlot(k, (j + 1) % (mask + 1), mask, n + 1)
    ELSE j

\* The outer loop of maybe_rehash from old slot i on, filling k and v.
RECURSIVE RehashLoop(_, _, _, _, _)
RehashLoop(m, i, k, v, newsize) ==
    IF i >= m.size THEN [key |-> k, val |-> v]
    ELSE IF m.key[i] = NULLKEY \/ m.key[i] = TOMBSTONE
         THEN RehashLoop(m, i + 1, k, v, newsize)
    ELSE LET j == RehashSlot(k, HashIdx(m.key[i], newsize), newsize - 1, 0)
         IN  RehashLoop(m, i + 1, [k EXCEPT ![j] = m.key[i]],
                        [v EXCEPT ![j] = m.val[i]], newsize)

\* m->nused < m->size * 0.7, and m->nelem < m->size * 0.35: size is a power of
\* two, so neither product is an integer and the comparisons are exact.
BelowLoad_08(m) == 10 * m.nused < 8 * m.size
BelowLoad_full(m) == m.nused < m.size
BelowLoad(m) == 10 * m.nused < 7 * m.size
Sparse_flipped(m) == 20 * m.nelem >= 7 * m.size
Sparse(m) == 20 * m.nelem < 7 * m.size

maybe_rehash(m) ==
    IF ~m.alloc
    THEN [m EXCEPT !.alloc = TRUE,
                   !.key = [i \in 0..(INIT_SIZE - 1) |-> NULLKEY],
                   !.val = [i \in 0..(INIT_SIZE - 1) |-> NULL],
                   !.size = INIT_SIZE]
    ELSE IF BelowLoad(m) THEN m
    ELSE LET newsize == IF Sparse(m) THEN m.size ELSE m.size * 2
             kv == RehashLoop(m, 0, [i \in 0..(newsize - 1) |-> NULLKEY],
                              [i \in 0..(newsize - 1) |-> NULL], newsize)
         IN  [m EXCEPT !.key = kv.key, !.val = kv.val,
                       !.size = newsize, !.nused = m.nelem]

\* The probe loop of map_get_nostack and map_remove: the slot holding key,
\* -1 when a NULL slot ends the probe, -2 when the loop would never end.
RECURSIVE FindSlot(_, _, _, _)
FindSlot(m, key, i, n) ==
    IF n > m.size THEN -2
    ELSE IF m.key[i] = NULLKEY THEN -1
    ELSE IF m.key[i] # TOMBSTONE /\ m.key[i] = key THEN i
    ELSE FindSlot(m, key, (i + 1) % m.size, n + 1)

map_get_nostack(m, key) ==
    IF ~m.alloc THEN NULL
    ELSE LET i == FindSlot(m, key, HashIdx(key, m.size), 0)
         IN  IF i < 0 THEN NULL ELSE m.val[i]

RECURSIVE map_get(_, _, _)
map_get(ms, t, key) ==
    LET r == map_get_nostack(ms[t], key)
    IN  IF r # NULL THEN r
        ELSE IF ms[t].parent # 0 THEN map_get(ms, ms[t].parent, key)
        ELSE NULL

\* The probe loop of map_put: the slot it writes (the first NULL or TOMBSTONE
\* slot, or the slot holding key, whichever the probe meets first); -2 when the
\* loop would never end.
RECURSIVE PutSlot(_, _, _, _)
PutSlot(m, key, i, n) ==
    IF n > m.size THEN -2
    ELSE IF m.key[i] = NULLKEY \/ m.key[i] = TOMBSTONE THEN i
    ELSE IF m.key[i] = key THEN i
    ELSE PutSlot(m, key, (i + 1) % m.size, n + 1)

map_put(m0, key, val) ==
    LET m == maybe_rehash(m0)
        i == PutSlot(m, key, HashIdx(key, m.size), 0)
        k == m.key[i]
    IN  IF k = NULLKEY \/ k = TOMBSTONE
        THEN [m EXCEPT !.key[i] = key, !.val[i] = val,
                       !.nelem = m.nelem + 1,
                       !.nused = IF k = NULLKEY THEN m.nused + 1 ELSE m.nused]
        ELSE [m EXCEPT !.val[i] = val]

map_remove(m, key) ==
    IF ~m.alloc THEN m
    ELSE LET i == FindSlot(m, key, HashIdx(key, m.size), 0)
         IN  IF i < 0 THEN m
             ELSE [m EXCEPT !.key[i] = TOMBSTONE, !.val[i] = NULL,
                            !.nelem = m.nelem - 1]

map_len(m) == m.nelem

\* No MapIter was made yet.
NoIter == [map |-> 0, cur |-> 0, i |-> 0]

map_iter(m) == [map |-> m, cur |-> m, i |-> 0]

\* The loop of do_map_next from slot i on: the first slot that holds a key,
\* m.size when there is none.
RECURSIVE NextSlot(_, _)
NextSlot(m, i) ==
    IF i >= m.size THEN m.size
    ELSE IF m.key[i] = NULLKEY \/ m.key[i] = TOMBSTONE THEN NextSlot(m, i + 1)
    ELSE i

\* do_map_next once its loop stopped at slot i: the iterator after the call,
\* the key returned (NULLKEY for NULL) and what *val holds.
do_map_next_at(m, it, val, i) ==
    IF i < m.size
    THEN [iter |-> [it EXCEPT !.i = i + 1], key |-> m.key[i], val |-> m.val[i]]
    ELSE [iter |-> [it EXCEPT !.i = m.size], key |-> NULLKEY, val |-> val]

do_map_next(ms, it, val) ==
    do_map_next_at(ms[it.cur], it, val, NextSlot(ms[it.cur], it.i))

\* The loop of is_dup from table p on.
RECURSIVE is_dup_from(_, _, _, _)
is_dup_from(ms, it, p, k) ==
    IF p = it.cur THEN FALSE
    ELSE IF map_get_nostack(ms[p], k) # NULL THEN TRUE
    ELSE is_dup_from(ms, it, ms[p].parent, k)

is_dup(ms, it, k) == is_dup_from(ms, it, it.map, k)

RECURSIVE map_next(_, _, _)
RECURSIVE map_next_loop(_, _)

\* map_next after its loop ended: iter->cur = iter->cur->parent, and the
\* call of map_next on the parent when there is one.
map_next_parent(ms, it, val) ==
    IF it.cur # 0 THEN map_next(ms, [it EXCEPT !.i = 0], val)
    ELSE [iter |-> it, key |-> NULLKEY, val |-> val]

\* The for (;;) loop of map_next with the outcome r of do_map_next in hand.
map_next_loop(ms, r) ==
    IF r.key = NULLKEY
    THEN map_next_parent(ms, [r.iter EXCEPT !.cur = ms[r.iter.cur].parent], r.val)
    ELSE IF is_dup(ms, r.iter, r.key) THEN map_next_loop(ms, do_map_next(ms, r.iter, r.val))
    ELSE r

map_next(ms, it, val) ==
    IF it.cur = 0 THEN [iter |-> it, key |-> NULLKEY, val |-> val]
    ELSE map_next_loop(ms, do_map_next(ms, it, val))


----------------------------------------------------------------------------
(* codegen.c: Vars, Mems and assembly lines *)

NUMREGS == 6

\* static char *regs[]
regs == [i \in 0..(NUMREGS - 1) |->
            CASE i = 0 -> "rdi" [] i = 1 -> "rsi" [] i = 2 -> "rdx"
              [] i = 3 -> "rcx" [] i = 4 -> "r8"  [] i = 5 -> "r9"]

MAX(x, y) == IF x > y THEN x ELSE y

\* A Var pointer: a computed Var (its place in vars), a literal, or NULL.
\* A Mem pointer: its place in mems.
VarRef(i) == [kind |-> "VAR", ix |-> i, val |-> 0]
Literal(n) == [kind |-> "LIT", ix |-> 0, val |-> n]
NoVar == [kind |-> "NULL", ix |-> 0, val |-> 0]
MemRef(i) == [kind |-> "MEM", ix |-> i, val |-> 0]

\* Assembly lines are kept as records: the mnemonic, the two operands and the
\* trailing comment tag. An operand is a register, an immediate or a stack
\* slot off(%rbp); its field of is history: the Var or Mem whose register,
\* value or offset was formatted into the text.
Reg(r, of) == [k |-> "reg", r |-> r, n |-> 0, of |-> of]
Imm(n) == [k |-> "imm", r |-> "", n |-> n, of |-> Literal(n)]
Slot(off, of) == [k |-> "mem", r |-> "rbp", n |-> off, of |-> of]
None == [k |-> "none", r |-> "", n |-> 0, of |-> NoVar]
Line(op, src, dst, tag) == [op |-> op, src |-> src, dst |-> dst, tag |-> tag]

----------------------------------------------------------------------------
(* codegen.c: the register cache *)

\* A Regmap of the zero-initialised static array: v == NULL, reg == NULL.
NoRegmap == [v |-> 0, reg |-> ""]

EmptyCache == [i \in 0..(NUMREGS - 1) |-> NoRegmap]

move_to_head_stay(r2v, i) == r2v
move_to_head(r2v, i) ==
    [j \in 0..(NUMREGS - 1) |->
        IF j = 0 THEN r2v[i] ELSE IF j <= i THEN r2v[j - 1] ELSE r2v[j]]

\* The first slot of r2v from i on whose v is x; NUMREGS when there is none.
RECURSIVE FirstSlot(_, _, _)
FirstSlot(r2v, x, i) ==
    IF i >= NUMREGS THEN NUMREGS
    ELSE IF r2v[i].v = x THEN i
    ELSE FirstSlot(r2v, x, i + 1)

\* write("movq %%%s, %d(%%rbp)  # spill", reg, last->v->off)
SpillLine_untagged(reg, vs, v) ==
    Line("movq", Reg(reg, VarRef(v)), Slot(vs[v].off, VarRef(v)), "")
SpillLine(reg, vs, v) ==
    Line("movq", Reg(reg, VarRef(v)), Slot(vs[v].off, VarRef(v)), "spill")

\* write("movq %d(%%rbp), %%%s  # load", v->off, reg)
LoadLine(reg, vs, v) ==
    Line("movq", Slot(vs[v].off, VarRef(v)), Reg(reg, VarRef(v)), "load")

\* last->v->spilled = true
MarkSpilled_skip(vs, v) == vs
MarkSpilled(vs, v) == [vs EXCEPT ![v].spilled = "true"]

\* The read of v->spilled: garbage is what it yields while no one has written
\* that field of the malloc'ed Var.
IsSpilled(vs, v, garbage) ==
    IF vs[v].spilled = "uninit" THEN garbage ELSE vs[v].spilled = "true"

\* reg2var[i].v = v; reg2var[i].reg = reg; move_to_head(i)
Bind_in_place(r2v, i, v, reg) == [r2v EXCEPT ![i] = [v |-> v, reg |-> reg]]
Bind(r2v, i, v, reg) == move_to_head([r2v EXCEPT ![i] = [v |-> v, reg |-> reg]], i)

\* History of one regname(v) call with outcome r: the Var, the register name
\* returned, the Var evicted (0: none) and held, the Vars whose register
\* names had been returned for a line not yet written when the call was made.
Resolved(v, r, held) == [v |-> v, reg |-> r.reg, evicted |-> r.evicted, held |-> held]

\* Spill the Var of slot 0 instead of the least recently used one.
regname_spill_head(r2v, vs, v, garbage, last) ==
    [reg2var |-> Bind(r2v, 0, v, r2v[0].reg),
     vars |-> MarkSpilled(vs, r2v[0].v),
     lines |-> <<SpillLine(r2v[0].reg, vs, r2v[0].v)>> \o
               (IF IsSpilled(MarkSpilled(vs, r2v[0].v), v, garbage)
                THEN <<LoadLine(r2v[0].reg, vs, v)>> ELSE <<>>),
     reg |-> r2v[0].reg, evicted |-> r2v[0].v]

\* The three ways out of regname: the cache and Vars after the call, the
\* lines written, the register name returned and the Var evicted (0: none).
regname_hit(c, vs) ==
    [reg2var |-> c, vars |-> vs, lines |-> <<>>, reg |-> c[0].reg, evicted |-> 0]

regname_empty(r2v, vs, v, i) ==
    [reg2var |-> Bind(r2v, i, v, regs[i]), vars |-> vs, lines |-> <<>>,
     reg |-> regs[i], evicted |-> 0]

regname_spill(r2v, vs, v, garbage, last) ==
    [reg2var |-> Bind(r2v, NUMREGS - 1, v, last.reg),
     vars |-> MarkSpilled(vs, last.v),
     lines |-> <<SpillLine(last.reg, vs, last.v)>> \o
               (IF IsSpilled(MarkSpilled(vs, last.v), v, garbage)
                THEN <<LoadLine(last.reg, vs, v)>> ELSE <<>>),
     reg |-> last.reg, evicted |-> last.v]

\* regname(v) on the cache r2v and the Vars vs.
regname(r2v, vs, v, garbage) ==
    IF FirstSlot(r2v, v, 0) < NUMREGS
    THEN regname_hit(move_to_head(r2v, FirstSlot(r2v, v, 0)), vs)
    ELSE IF FirstSlot(r2v, 0, 0) < NUMREGS
    THEN regname_empty(r2v, vs, v, FirstSlot(r2v, 0, 0))
    ELSE regname_spill(r2v, vs, v, garbage, r2v[NUMREGS - 1])

----------------------------------------------------------------------------
(* codegen.c: the translator (Node -> Inst) *)

\* The off of a Var before regalloc writes it.
UNSET == 1

\* EMPTY_MAP: a Map whose key array is not allocated yet.
EMPTY_MAP ==
    [ parent |-> 0, alloc |-> FALSE, key |-> <<>>, val |-> <<>>,
      size |-> 0, nelem |-> 0, nused |-> 0 ]

\* The statics of codegen.c as the process starts.
Statics0 ==
    [ mems |-> <<>>, lvars |-> EMPTY_MAP, vars |-> <<>>, insts |-> <<>>,
      offset |-> 0, id |-> 1, err |-> "", ret |-> NoVar ]

\* error(...): the process ends; nothing runs after it.
error(st, msg) == [st EXCEPT !.err = msg]

\* A failed assert(...): the process aborts.
assert_fail(st) == [st EXCEPT !.err = "assert"]

make_mem(st, size) ==
    [st EXCEPT !.offset = st.offset + size,
               !.mems = Append(st.mems, [off |-> -(st.offset + size), size |-> size])]

\* alloc(size): make_mem(size) and vec_push(mems, m)
alloc(st, size) == make_mem(st, size)

\* make_var: kind and id are set, off and spilled are left as malloc gave them.
make_var(st) ==
    [st EXCEPT !.vars = Append(st.vars, [id |-> st.id, off |-> UNSET, spilled |-> "uninit"]),
               !.id = st.id + 1]

\* emit(in): vec_push(insts, in)
emit_front(st, in) == [st EXCEPT !.insts = <<in>> \o st.insts]
emit(st, in) == [st EXCEPT !.insts = Append(st.insts, in)]

Inst(kind, arg1, arg2, arg3) == [kind |-> kind, arg1 |-> arg1, arg2 |-> arg2, arg3 |-> arg3]

\* The default case of walk.
walk_default_silent(node, st) == [st EXCEPT !.ret = NoVar]
walk_default(node, st) == error(st, "unknown node")

RECURSIVE walk(_, _)
RECURSIVE walk_body(_, _, _)

\* The loop of the AST_COMPOUND_STMT case from statement i on.
walk_body(body, i, st) ==
    IF st.err # "" \/ i > Len(body) THEN st
    ELSE walk_body(body, i + 1, walk(body[i], st))

\* emit(make_inst(...)) with the Var a walk returned, and the return of r.
emit_ret(st, in, r) == IF st.err # "" THEN st ELSE [emit(st, in) EXCEPT !.ret = r]

\* The AST_DECL case after alloc made the Mem m: map_put, then the STORE of
\* the initializer when there is one.
walk_store(m, st) == emit_ret(st, Inst("STORE", MemRef(m), st.ret, NoVar), NoVar)

walk_declinit(node, m, st) ==
    IF Len(node.declinit) > 0 THEN walk_store(m, walk(node.declinit[1].initval, st))
    ELSE [st EXCEPT !.ret = NoVar]

walk_decl(node, m, st) ==
    walk_declinit(node, m, [st EXCEPT !.lvars = map_put(st.lvars, node.varname, m)])

\* The AST_LVAR case after map_get returned m.
walk_lvar(m, st) ==
    IF m = NULL THEN assert_fail(st)
    ELSE emit_ret(make_var(st), Inst("LOAD", VarRef(Len(st.vars) + 1), MemRef(m), NoVar),
                  VarRef(Len(st.vars) + 1))

\* The AST_RETURN case after the walk of retval.
walk_return(st) == emit_ret(st, Inst("RET", st.ret, NoVar, NoVar), NoVar)

\* The '+' and '*' case after make_var made dst: the emit with lhs and rhs in
\* hand, and the walk of the right operand with lhs in hand.
walk_arith(node, dst, lhs, st) ==
    emit_ret(st, Inst(IF node.kind = "+" THEN "ADD" ELSE "MUL", dst, lhs, st.ret), dst)

walk_rhs(node, dst, st) ==
    IF st.err # "" THEN st ELSE walk_arith(node, dst, st.ret, walk(node.right, st))

walk(node, st) ==
    IF st.err # "" THEN st
    ELSE CASE node.kind = "AST_DECL" ->
                walk_decl(node, Len(st.mems) + 1, alloc(st, MAX(node.size, 8)))
           [] node.kind = "AST_LVAR" ->
                walk_lvar(map_get([t \in {1} |-> st.lvars], 1, node.varname), st)
           [] node.kind = "AST_COMPOUND_STMT" ->
                [walk_body(node.stmts, 1, st) EXCEPT !.ret = NoVar]
           [] node.kind = "AST_RETURN" ->
                walk_return(walk(node.retval, st))
           [] node.kind = "AST_CONV" -> walk(node.operand, st)
           [] node.kind \in {"+", "*"} ->
                walk_rhs(node, VarRef(Len(st.vars) + 1), walk(node.left, make_var(st)))
           [] node.kind = "AST_LITERAL" ->
                IF node.tykind # "KIND_INT" THEN assert_fail(st)
                ELSE [st EXCEPT !.ret = Literal(node.ival)]
           [] OTHER -> walk_default(node, st)

\* translate(toplevels); the Func it makes is (name, insts).
translate(tl, st) ==
    IF Len(tl) # 1 THEN assert_fail(st)
    ELSE IF tl[1].kind # "AST_FUNC" THEN assert_fail(st)
    ELSE walk(tl[1].body, st)

\* The loop of regalloc from Var i on.
RECURSIVE regalloc_loop(_, _, _)
regalloc_loop(vs, off, i) ==
    IF i > Len(vs) THEN [vars |-> vs, offset |-> off]
    ELSE regalloc_loop([vs EXCEPT ![i].off = -(off + 8)], off + 8, i + 1)

regalloc(vs, off) == regalloc_loop(vs, off, 1)

----------------------------------------------------------------------------
(* codegen.c: the emitter (Inst -> x86-64 assembly) *)

\* The emitter within one round of the loop of print: the cache, the Vars,
\* the lines the round wrote so far, the texts of the arguments of the write()
\* under way (sx the first after the format, sy the second), and err, set once
\* error() ended the process.
Emitter(r2v, vs) ==
    [reg2var |-> r2v, vars |-> vs, lines |-> <<>>, sx |-> None, sy |-> None, err |-> "",
     log |-> <<>>]

\* The Vars whose register names str has returned for the write() under way.
Held(c) == { o.of.ix : o \in { a \in {c.sx, c.sy} : a.k = "reg" /\ a.of.kind = "VAR" } }

\* case VAR of str with the outcome r of regname: the text goes to argument f.
str_reg(c, f, x, r) ==
    [c EXCEPT !.reg2var = r.reg2var, !.vars = r.vars, !.lines = c.lines \o r.lines,
              ![f] = Reg(r.reg, x), !.log = Append(c.log, Resolved(x.ix, r, Held(c)))]

\* str(v) as argument f of a write()
str(c, f, x, garbage) ==
    IF c.err # "" THEN c
    ELSE CASE x.kind = "VAR" -> str_reg(c, f, x, regname(c.reg2var, c.vars, x.ix, garbage))
           [] x.kind = "LIT" -> [c EXCEPT ![f] = Imm(x.val)]
           [] OTHER -> error(c, "internal error")

\* An argument f of a write() that is not a call of str.
arg(c, f, x) == [c EXCEPT ![f] = x]

\* The two str() calls in the argument list of one write(): ord is the order
\* in which this evaluation of the call takes them.
str2(c, x, y, ord, garbage) ==
    IF ord = "l2r" THEN str(str(c, "sx", x, garbage), "sy", y, garbage)
    ELSE str(str(c, "sy", y, garbage), "sx", x, garbage)

\* write(...) of the line l, after its arguments were evaluated.
write_line(c, l) == IF c.err # "" THEN c ELSE [c EXCEPT !.lines = Append(c.lines, l)]

\* write("op %s, %s", sx, sy); the texts of its arguments are used up.
write(c, op) == [write_line(c, Line(op, c.sx, c.sy, "")) EXCEPT !.sx = None, !.sy = None]

\* case ADD / case MUL of print: "movq arg2, arg1" then "addq|imulq arg3, arg1"
print_arith(c, in, mnemonic, o1, o2, garbage) ==
    write(str2(write(str2(c, in.arg2, in.arg1, o1, garbage), "movq"),
               in.arg3, in.arg1, o2, garbage),
          mnemonic)

\* case RET of print: "movq arg1, %rax" and "jmp end"
print_ret(c, in, garbage) ==
    write_line(write(arg(str(c, "sx", in.arg1, garbage), "sy", Reg("rax", NoVar)), "movq"),
               Line("jmp", None, None, ""))

\* case LOAD of print: "movq rhs->off(%rbp), lhs"
print_load(c, in, ms, garbage) ==
    write(str(arg(c, "sx", Slot(ms[in.arg2.ix].off, in.arg2)), "sy", in.arg1, garbage), "movq")

\* case STORE of print: "movq rhs, lhs->off(%rbp)"
print_store(c, in, ms, garbage) ==
    write(arg(str(c, "sx", in.arg2, garbage), "sy", Slot(ms[in.arg1.ix].off, in.arg1)), "movq")

----------------------------------------------------------------------------
(* The machine that runs the lines written, next to the values the Insts
   give to the Vars and Mems. *)

\* Registers are 64 bits wide; the model keeps their low 15 bits, which
\* movq, addq and imulq compute from the low 15 bits of their operands.
WordMod == 2 ^ 15

RegNames == { regs[i] : i \in 0..(NUMREGS - 1) } \cup {"rax"}

\* What a register or a stack slot holds before the function writes it: a
\* value of its own.
RegJunk(x) ==
    CASE x = "rdi" -> 20011 [] x = "rsi" -> 20021 [] x = "rdx" -> 20023
      [] x = "rcx" -> 20029 [] x = "r8" -> 20047 [] x = "r9" -> 20051
      [] OTHER -> 20063
StackJunk(o) == 10007 - o

\* The value of a Var that no line has written yet: not a value of a word.
Unwritten == WordMod

\* The machine as the function is entered, with the stack slots at offs.
Machine0(offs) ==
    [regs |-> [x \in RegNames |-> RegJunk(x)], stack |-> [o \in offs |-> StackJunk(o)]]

\* The value an operand of a line yields on machine m.
Fetch(m, x) ==
    CASE x.k = "reg" -> m.regs[x.r]
      [] x.k = "imm" -> x.n % WordMod
      [] OTHER -> m.stack[x.n]

Store(m, x, v) ==
    IF x.k = "reg" THEN [m EXCEPT !.regs[x.r] = v] ELSE [m EXCEPT !.stack[x.n] = v]

Arith(op, old, v) ==
    CASE op = "addq" -> (old + v) % WordMod
      [] op = "imulq" -> (old * v) % WordMod
      [] OTHER -> v

Exec(m, l) ==
    IF l.op \in {"movq", "addq", "imulq"}
    THEN Store(m, l.dst, Arith(l.op, IF l.op = "movq" THEN 0 ELSE Fetch(m, l.dst),
                               Fetch(m, l.src)))
    ELSE m

\* The value of the Var, literal or Mem an operand stands for.
ValueOf(e, x) ==
    CASE x.of.kind = "LIT" -> x.of.val % WordMod
      [] x.of.kind = "VAR" -> e.vval[x.of.ix]
      [] x.of.kind = "MEM" -> e.mval[x.of.ix]
      [] OTHER -> Unwritten

\* x is a register standing for a computed Var that was written earlier.
ReadsVar(e, x) == x.k = "reg" /\ x.of.kind = "VAR" /\ e.vval[x.of.ix] # Unwritten

\* Every register the line l of print reads holds the value of its Var.
ReadsOK(e, l) ==
    /\ ReadsVar(e, l.src) => e.mach.regs[l.src.r] = e.vval[l.src.of.ix]
    /\ (l.op \in {"addq", "imulq"} /\ ReadsVar(e, l.dst)) =>
            e.mach.regs[l.dst.r] = e.vval[l.dst.of.ix]

\* The value the line l of print gives to what its destination stands for.
Written(e, l) ==
    Arith(l.op, IF l.op = "movq" THEN 0 ELSE ValueOf(e, l.dst), ValueOf(e, l.src))

\* One line: the spill and load lines of regname move a value between a
\* register and the slot of its Var; the lines of print also give a value to
\* the Var or Mem their destination stands for.
Step(e, l) ==
    IF l.tag # "" \/ l.op = "jmp" THEN [e EXCEPT !.mach = Exec(e.mach, l)]
    ELSE [ mach |-> Exec(e.mach, l),
           vval |-> IF l.dst.of.kind = "VAR" /\ l.dst.k = "reg"
                    THEN [e.vval EXCEPT ![l.dst.of.ix] = Written(e, l)] ELSE e.vval,
           mval |-> IF l.dst.of.kind = "MEM"
                    THEN [e.mval EXCEPT ![l.dst.of.ix] = Written(e, l)] ELSE e.mval,
           ok |-> e.ok /\ ReadsOK(e, l) ]

RECURSIVE Run(_, _, _)
Run(e, ls, i) == IF i > Len(ls) THEN e ELSE Run(Step(e, ls[i]), ls, i + 1)

MachIdle ==
    /\ mach = <<>>
    /\ vval = <<>>
    /\ mval = <<>>
    /\ readOK = TRUE

----------------------------------------------------------------------------
(* The input trees. *)

MaxLocals == 7
MaxAgainLocals == 2

\* The name of the i-th local: "a", "b", ...
VarName(i) == <<96 + i>>

LVarNode(name) == [kind |-> "AST_LVAR", varname |-> name]
LitNode(n) == [kind |-> "AST_LITERAL", tykind |-> "KIND_INT", ival |-> n]
ConvNode(e) == [kind |-> "AST_CONV", operand |-> e]
BinNode(op, l, r) == [kind |-> op, left |-> l, right |-> r]
ReturnNode(e) == [kind |-> "AST_RETURN", retval |-> e]
InitNode(e) == [kind |-> "AST_INIT", initval |-> e]
DeclNode(name, size, init) ==
    [kind |-> "AST_DECL", varname |-> name, size |-> size, declinit |-> init]
CompoundNode(stmts) == [kind |-> "AST_COMPOUND_STMT", stmts |-> stmts]
FuncNode(name, body) == [kind |-> "AST_FUNC", fname |-> name, body |-> body]

\* The shapes of input: n locals, declared in order and all referenced in the
\* one return expression, a chain of n - 1 operators nested to the left or to
\* the right. p.ops picks the operators, p.bad (0: none) the place of a '-'
\* operator, p.variant wraps the references in conversions or adds a literal
\* operand, and picks the declared type sizes.
Leaf(p, i) ==
    IF p.variant = "conv" THEN ConvNode(LVarNode(VarName(i))) ELSE LVarNode(VarName(i))

OpAt(p, j) ==
    IF j = p.bad THEN "-"
    ELSE CASE p.ops = "add" -> "+"
           [] p.ops = "mul" -> "*"
           [] OTHER -> IF j % 2 = 1 THEN "+" ELSE "*"

RECURSIVE LeftChain(_, _)
LeftChain(p, k) ==
    IF k = 1 THEN Leaf(p, 1)
    ELSE BinNode(OpAt(p, k - 1), LeftChain(p, k - 1), Leaf(p, k))

RECURSIVE RightChain(_, _)
RightChain(p, k) ==
    IF k = p.n THEN Leaf(p, k)
    ELSE BinNode(OpAt(p, k), Leaf(p, k), RightChain(p, k + 1))

Chain(p) == IF p.shape = "left" THEN LeftChain(p, p.n) ELSE RightChain(p, 1)

RetExpr(p) ==
    CASE p.variant = "litr" -> BinNode("+", Chain(p), LitNode(2))
      [] p.variant = "litl" -> BinNode("*", LitNode(2), Chain(p))
      [] OTHER -> Chain(p)

\* sizeof of the declared type: int, a 12-byte struct, long, or a mix.
DeclSize(p, i) ==
    CASE p.variant = "plain" -> 4
      [] p.variant = "conv" -> 12
      [] p.variant = "litl" -> 8
      [] OTHER -> <<1, 12, 8, 16, 4>>[(i % 5) + 1]

\* Every third local is declared without an initializer.
Decl(p, i) ==
    DeclNode(VarName(i), DeclSize(p, i),
             IF i % 3 = 0 THEN <<>> ELSE <<InitNode(LitNode(i))>>)

Tree(p) ==
    << FuncNode("f", CompoundNode([i \in 1..(p.n + 1) |->
            IF i <= p.n THEN Decl(p, i) ELSE ReturnNode(RetExpr(p))])) >>

Good(ns) ==
    [ n : ns, shape : {"left", "right"}, ops : {"add", "mul", "alt"},
      bad : {0}, variant : {"plain", "conv", "litr", "litl"} ]

Bad(ns) ==
    { p \in [ n : ns, shape : {"left", "right"}, ops : {"add"},
              bad : 1..MaxLocals, variant : {"plain"} ] : p.bad < p.n }

\* The shapes of the functions of a process that calls codegen twice.
Small(ps) == { p \in ps : p.shape = "left" /\ p.ops = "add" /\ p.variant = "plain" }

\* What a process passes to codegen: one function, or two small functions in
\* two calls, one after the other.
Programs ==
    { <<Tree(p)>> : p \in Good(1..MaxLocals) \cup Bad(2..MaxLocals) }
    \cup
    { <<Tree(p), Tree(q)>> :
        p \in Small(Good(1..MaxAgainLocals)),
        q \in Small(Good(1..MaxAgainLocals) \cup Bad(2..MaxAgainLocals)) }

Orders == {"l2r", "r2l"}

----------------------------------------------------------------------------
(* codegen(toplevels, fp) *)

RegIdle ==
    /\ reg2var = EmptyCache
    /\ vars = <<>>
    /\ lastLines = <<>>
    /\ resolves = <<>>
    /\ recency = <<>>
    /\ nres = 0
    /\ victim = 0

MapIdle ==
    /\ maps = <<>>
    /\ bind = <<>>
    /\ lastop = <<>>
    /\ nops = 0
    /\ iter = NoIter
    /\ itval = NULL
    /\ yielded = <<>>

\* The sizes of the statics as a call of codegen begins.
Entry(n, is, vs, r2v) ==
    [ calls |-> n, insts |-> Len(is), vars |-> Len(vs),
      cached |-> Cardinality({ i \in 0..(NUMREGS - 1) : r2v[i].v # 0 }) ]

CgIdle ==
    /\ toplevels = <<>>
    /\ todo = <<>>
    /\ entry = Entry(0, <<>>, <<>>, EmptyCache)
    /\ pc = "idle"
    /\ mems = <<>>
    /\ lvars = EMPTY_MAP
    /\ insts = <<>>
    /\ offset = 0
    /\ id = 1
    /\ ip = 0
    /\ nout = 0
    /\ subN = -1
    /\ addN = -1
    /\ nspill = 0
    /\ MachIdle

InitCg ==
    /\ \E prog \in Programs :
        /\ toplevels = Head(prog)
        /\ todo = Tail(prog)
    /\ entry = Entry(1, <<>>, <<>>, EmptyCache)
    /\ pc = "start"
    /\ mems = Statics0.mems
    /\ lvars = Statics0.lvars
    /\ vars = Statics0.vars
    /\ insts = Statics0.insts
    /\ offset = Statics0.offset
    /\ id = Statics0.id
    /\ reg2var = EmptyCache
    /\ ip = 0
    /\ nout = 0
    /\ subN = -1
    /\ addN = -1
    /\ nspill = 0
    /\ lastLines = <<>>
    /\ resolves = <<>>
    /\ recency = <<>>
    /\ nres = 0
    /\ victim = 0
    /\ MapIdle
    /\ MachIdle

Ended(err) == IF err = "" THEN "" ELSE IF err = "assert" THEN "abort" ELSE "fatal"

\* Func *f = translate(toplevels), the first half of codegen.
Translate ==
    /\ pc = "start"
    /\ \E st \in { translate(toplevels,
                     [ mems |-> mems, lvars |-> lvars, vars |-> vars, insts |-> insts,
                       offset |-> offset, id |-> id, err |-> "", ret |-> NoVar ]) } :
           /\ mems' = st.mems
           /\ lvars' = st.lvars
           /\ vars' = st.vars
           /\ insts' = st.insts
           /\ offset' = st.offset
           /\ id' = st.id
           /\ pc' = IF st.err # "" THEN Ended(st.err) ELSE "compile"
    /\ UNCHANGED <<toplevels, todo, entry, reg2var, ip, nout, subN, addN, nspill, lastLines,
                   resolves, recency, nres, victim, mapVars, machVars>>

\* compile(f) up to the call of print(f): regalloc() and the six lines from
\* ".text" to "sub $offset, %rsp". The function compiled is entered on a
\* machine of its own.
CompileBegin ==
    /\ pc = "compile"
    /\ \E r \in { regalloc(vars, offset) } :
           /\ vars' = r.vars
           /\ offset' = r.offset
           /\ subN' = r.offset
           /\ mach' = Machine0({ mems[m].off : m \in 1..Len(mems) } \cup
                               { r.vars[v].off : v \in 1..Len(vars) })
    /\ mval' = [m \in 1..Len(mems) |-> StackJunk(mems[m].off)]
    /\ vval' = [v \in 1..Len(vars) |-> Unwritten]
    /\ nout' = nout + 6
    /\ lastLines' = <<>>
    /\ resolves' = <<>>
    /\ ip' = 1
    /\ pc' = "print"
    /\ UNCHANGED <<toplevels, todo, entry, mems, lvars, insts, id, reg2var, addN, nspill,
                   readOK, recency, nres, victim, mapVars>>

\* One round of the loop of print(f), on the Inst at ip: c is the emitter
\* after the round, e the machine after the lines the round wrote.
PrintStep(c) ==
    /\ reg2var' = c.reg2var
    /\ vars' = c.vars
    /\ lastLines' = c.lines
    /\ resolves' = c.log
    /\ nout' = nout + Len(c.lines)
    /\ nspill' = nspill + Len(SelectSeq(c.lines, LAMBDA l : l.tag = "spill"))
    /\ \E e \in { Run([mach |-> mach, vval |-> vval, mval |-> mval, ok |-> TRUE],
                      c.lines, 1) } :
           /\ mach' = e.mach
           /\ vval' = e.vval
           /\ mval' = e.mval
           /\ readOK' = e.ok
    /\ ip' = ip + 1
    /\ pc' = IF c.err # "" THEN Ended(c.err) ELSE "print"
    /\ UNCHANGED <<toplevels, todo, entry, mems, lvars, insts, offset, id, subN, addN,
                   recency, nres, victim, mapVars>>

Printing(kinds) == pc = "print" /\ ip <= Len(insts) /\ insts[ip].kind \in kinds

\* g is what a read of the spilled field of a Var yields while no one has
\* written it; o1 and o2 are the orders in which the two write() calls of the
\* round evaluate their arguments.
PrintADD ==
    /\ Printing({"ADD"})
    /\ \E g \in BOOLEAN, o1 \in Orders, o2 \in Orders :
         \E c \in { print_arith(Emitter(reg2var, vars), insts[ip], "addq", o1, o2, g) } :
            PrintStep(c)

PrintMUL ==
    /\ Printing({"MUL"})
    /\ \E g \in BOOLEAN, o1 \in Orders, o2 \in Orders :
         \E c \in { print_arith(Emitter(reg2var, vars), insts[ip], "imulq", o1, o2, g) } :
            PrintStep(c)

PrintRET ==
    /\ Printing({"RET"})
    /\ \E g \in BOOLEAN :
         \E c \in { print_ret(Emitter(reg2var, vars), insts[ip], g) } : PrintStep(c)

PrintLOAD ==
    /\ Printing({"LOAD"})
    /\ \E g \in BOOLEAN :
         \E c \in { print_load(Emitter(reg2var, vars), insts[ip], mems, g) } : PrintStep(c)

PrintSTORE ==
    /\ Printing({"STORE"})
    /\ \E g \in BOOLEAN :
         \E c \in { print_store(Emitter(reg2var, vars), insts[ip], mems, g) } : PrintStep(c)

\* compile(f) after print(f) returned: the four lines from "end:" to "ret".
CompileEnd ==
    /\ pc = "print"
    /\ ip > Len(insts)
    /\ addN' = offset
    /\ nout' = nout + 4
    /\ lastLines' = <<>>
    /\ resolves' = <<>>
    /\ pc' = "done"
    /\ UNCHANGED <<toplevels, todo, entry, mems, lvars, vars, insts, offset, id, reg2var, ip,
                   subN, nspill, recency, nres, victim, mapVars, machVars>>

\* codegen returned and the process calls it again, on its next input. The
\* statics and the register cache are what the call before left.
Again ==
    /\ pc = "done"
    /\ todo # <<>>
    /\ toplevels' = Head(todo)
    /\ todo' = Tail(todo)
    /\ entry' = Entry(entry.calls + 1, insts, vars, reg2var)
    /\ pc' = "start"
    /\ ip' = 0
    /\ nout' = 0
    /\ subN' = -1
    /\ addN' = -1
    /\ nspill' = 0
    /\ lastLines' = <<>>
    /\ resolves' = <<>>
    /\ UNCHANGED <<mems, lvars, vars, insts, offset, id, reg2var, recency, nres, victim,
                   mapVars, machVars>>

NextCg ==
    \/ Translate
    \/ CompileBegin
    \/ PrintADD
    \/ PrintMUL
    \/ PrintRET
    \/ PrintLOAD
    \/ PrintSTORE
    \/ CompileEnd
    \/ Again

SpecCg == InitCg /\ [][NextCg]_allVars

----------------------------------------------------------------------------
(* The register cache under arbitrary regname calls. *)

NRegVars == 8
MaxResolves == 10

\* A computed Var as make_var leaves it and regalloc completes it: off is set,
\* spilled was never written.
RegVar(i) == [id |-> i, off |-> -8 * i, spilled |-> "uninit"]

InitReg ==
    /\ reg2var = EmptyCache
    /\ vars = [i \in 1..NRegVars |-> RegVar(i)]
    /\ lastLines = <<>>
    /\ resolves = <<>>
    /\ recency = <<>>
    /\ nres = 0
    /\ victim = 0
    /\ MapIdle
    /\ CgIdle

\* s with v moved (or added) to its front.
Touch(s, v) == <<v>> \o SelectSeq(s, LAMBDA x : x # v)

Resolve(v) ==
    /\ nres < MaxResolves
    /\ \E garbage \in BOOLEAN :
         \E r \in { regname(reg2var, vars, v, garbage) } :
            /\ reg2var' = r.reg2var
            /\ vars' = r.vars
            /\ lastLines' = r.lines
            /\ resolves' = <<Resolved(v, r, {})>>
            /\ victim' = r.evicted
    /\ recency' = Touch(recency, v)
    /\ nres' = nres + 1
    /\ UNCHANGED <<mapVars, cgVars, machVars>>

\* regname only compares Vars for identity, so the Vars are numbered in the
\* order of their first resolve: a call resolves a Var resolved before, or the
\* next new one.
NextReg == \E v \in 1..NRegVars : v <= Len(recency) + 1 /\ Resolve(v)

SpecReg == InitReg /\ [][NextReg]_allVars

----------------------------------------------------------------------------
(* One table under arbitrary puts and removes. *)

\* The table after map_put of the first n keys of FillKeys, each with value 1.
RECURSIVE Filled(_)
Filled(n) == IF n = 0 THEN make_map ELSE map_put(Filled(n - 1), FillKeys[n], 1)

NoBind == [k \in Keys |-> NULL]

InitMap ==
    \E n \in {0, PreFill} :
        /\ maps = [t \in {1} |-> Filled(n)]
        /\ bind = [t \in {1} |-> [k \in Keys |-> IF \E i \in 1..n : FillKeys[i] = k
                                                  THEN 1 ELSE NULL]]
        /\ lastop = <<"make_map", 1, NULLKEY, NULL>>
        /\ nops = 0
        /\ iter = NoIter
        /\ itval = NULL
        /\ yielded = <<>>
        /\ RegIdle
        /\ CgIdle

Put(t, k, v) ==
    /\ nops < MaxOps
    /\ nops' = nops + 1
    /\ maps' = [maps EXCEPT ![t] = map_put(maps[t], k, v)]
    /\ bind' = [bind EXCEPT ![t][k] = v]
    /\ lastop' = <<"map_put", t, k, v>>
    /\ UNCHANGED <<iter, itval, yielded, regVars, cgVars, machVars>>

Remove(t, k) ==
    /\ nops < MaxOps
    /\ nops' = nops + 1
    /\ maps' = [maps EXCEPT ![t] = map_remove(maps[t], k)]
    /\ bind' = [bind EXCEPT ![t][k] = NULL]
    /\ lastop' = <<"map_remove", t, k, NULL>>
    /\ UNCHANGED <<iter, itval, yielded, regVars, cgVars, machVars>>

NextMap ==
    \/ \E k \in FreeKeys, v \in Vals : Put(1, k, v)
    \/ \E k \in FreeKeys : Remove(1, k)

SpecMap == InitMap /\ [][NextMap]_allVars

----------------------------------------------------------------------------
(* One table near its load limit, dense or thinned out by removes. *)

Thin == 7
Dense == 12
RehashOps == 4

\* The table m after map_remove of the first n keys of FillKeys.
RECURSIVE Thinned(_, _)
Thinned(m, n) == IF n = 0 THEN m ELSE map_remove(Thinned(m, n - 1), FillKeys[n])

\* c is <<the number of keys put, the number of keys removed after that>>.
InitRehash ==
    \E c \in { <<PreFill, 0>>, <<PreFill, Thin>>, <<Dense, 0>> } :
        /\ maps = [t \in {1} |-> Thinned(Filled(c[1]), c[2])]
        /\ bind = [t \in {1} |->
                      [k \in Keys |-> IF \E i \in (c[2] + 1)..c[1] : FillKeys[i] = k
                                      THEN 1 ELSE NULL]]
        /\ lastop = IF c[2] = 0 THEN <<"map_put", 1, FillKeys[c[1]], 1>>
                    ELSE <<"map_remove", 1, FillKeys[c[2]], NULL>>
        /\ nops = 0
        /\ iter = NoIter
        /\ itval = NULL
        /\ yielded = <<>>
        /\ RegIdle
        /\ CgIdle

NextRehash == nops < RehashOps /\ NextMap

SpecRehash == InitRehash /\ [][NextRehash]_allVars

----------------------------------------------------------------------------
(* A scope chain: table 1 made by make_map, table 2 by make_map_parent(1). *)

ScopeKeys == { <<80>>, <<48>> }

InitScope ==
    /\ maps = [t \in {1, 2} |-> IF t = 1 THEN make_map ELSE make_map_parent(1)]
    /\ bind = [t \in {1, 2} |-> NoBind]
    /\ lastop = <<"make_map_parent", 2, NULLKEY, NULL>>
    /\ nops = 0
    /\ iter = NoIter
    /\ itval = NULL
    /\ yielded = <<>>
    /\ RegIdle
    /\ CgIdle

NextScope ==
    \/ \E t \in {1, 2}, k \in ScopeKeys, v \in Vals : Put(t, k, v)
    \/ \E t \in {1, 2}, k \in ScopeKeys : Remove(t, k)

SpecScope == InitScope /\ [][NextScope]_allVars

----------------------------------------------------------------------------
(* An iteration over the scope chain after arbitrary puts and removes. *)

\* MapIter *iter = map_iter(t)
MapIter(t) ==
    /\ iter' = map_iter(t)
    /\ itval' = NULL
    /\ yielded' = <<>>
    /\ lastop' = <<"map_iter", t, NULLKEY, NULL>>
    /\ UNCHANGED <<maps, bind, nops, regVars, cgVars, machVars>>

\* char *k = map_next(iter, &val), called until it returns NULL
MapNext ==
    /\ iter.cur # 0
    /\ \E r \in { map_next(maps, iter, itval) } :
           /\ iter' = r.iter
           /\ itval' = r.val
           /\ yielded' = IF r.key = NULLKEY THEN yielded
                         ELSE Append(yielded, <<r.key, r.val>>)
           /\ lastop' = <<"map_next", iter.map, r.key, r.val>>
    /\ UNCHANGED <<maps, bind, nops, regVars, cgVars, machVars>>

\* The tables are not touched between map_iter and the NULL of map_next.
NextIter ==
    \/ iter.map = 0 /\ NextScope
    \/ iter.map = 0 /\ \E t \in DOMAIN maps : MapIter(t)
    \/ MapNext

SpecIter == InitScope /\ [][NextIter]_allVars

----------------------------------------------------------------------------
(* Properties of one table. *)

Occupied(m, i) == m.key[i] # NULLKEY /\ m.key[i] # TOMBSTONE

\* The keys a lookup restricted to table m finds.
Found(m) == { k \in Keys : map_get_nostack(m, k) # NULL }

\* C1: map_len of a table equals the number of distinct keys that a lookup
\* restricted to that table finds, after any sequence of puts and removes.
C1_Density ==
    \A t \in DOMAIN maps : map_len(maps[t]) = Cardinality(Found(maps[t]))

\* C2: a key put with a non-null value and not removed since is looked up with
\* the value of its most recent put, whatever rehashes, puts and removes of
\* other keys came after.
C2_RoundTrip ==
    \A t \in DOMAIN maps : \A k \in Keys :
        bind[t][k] # NULL => map_get(maps, t, k) = bind[t][k]

\* The value the puts and removes so far bind to key in the nearest table of
\* t's parent chain that binds it; NULL when none does.
RECURSIVE Nearest(_, _)
Nearest(t, key) ==
    IF bind[t][key] # NULL THEN bind[t][key]
    ELSE IF maps[t].parent # 0 THEN Nearest(maps[t].parent, key)
    ELSE NULL

\* C3: map_get on a table returns that table's value for a key it binds, else
\* the value of the nearest ancestor binding the key, and NULL only when no
\* table of the parent chain binds the key.
C3_ScopedLookup ==
    \A t \in DOMAIN maps : \A k \in Keys : map_get(maps, t, k) = Nearest(t, k)

\* C4: no key is stored in more than one occupied slot of a table.
C4_KeyUnique ==
    \A t \in DOMAIN maps : \A i, j \in 0..(maps[t].size - 1) :
        (i # j /\ Occupied(maps[t], i)) => maps[t].key[i] # maps[t].key[j]

\* C5 as claimed: used slots (occupied plus tombstone) never exceed 0.7 of the
\* capacity.
C5_LoadFactor ==
    \A t \in DOMAIN maps : 10 * maps[t].nused <= 7 * maps[t].size

\* C5 as amended: the rehash check precedes the insertion, so the used slots
\* exceed 0.7 of the capacity by less than one slot.
C5_LoadFactorAfterPut ==
    \A t \in DOMAIN maps : 10 * (maps[t].nused - 1) < 7 * maps[t].size

\* C5's case: a put has just filled a slot beyond 0.7 of the capacity.
C5_Witness ==
    /\ lastop[1] = "map_put"
    /\ 10 * maps[1].nused > 7 * maps[1].size

----------------------------------------------------------------------------
(* Properties of the register cache. *)

\* The Vars the cache holds.
Cached(r2v) == { r2v[i].v : i \in 0..(NUMREGS - 1) } \ {0}

\* The place of v in the resolve history: 1 is the most recently resolved.
Pos(s, v) == CHOOSE i \in 1..Len(s) : s[i] = v

\* The cached Var whose most recent resolve is the oldest.
OldestCached ==
    CHOOSE v \in Cached(reg2var) :
        \A w \in Cached(reg2var) : Pos(recency, w) <= Pos(recency, v)

\* C7: a regname call evicts only on a miss with all 6 slots taken, and then
\* it evicts the cached Var whose most recent resolve is the oldest; resolving
\* v1..v7 in that order from an empty cache evicts nothing for v1..v6 and
\* exactly v1 for v7.
C7_AllocatorLRU ==
    [][ nres' = nres + 1 =>
        LET v == recency'[1]
            full == Cardinality(Cached(reg2var)) = NUMREGS
        IN  /\ (v \notin Cached(reg2var) /\ full) =>
                    /\ victim' = OldestCached
                    /\ Cached(reg2var') = (Cached(reg2var) \ {victim'}) \cup {v}
            /\ (v \in Cached(reg2var) \/ ~full) =>
                    /\ victim' = 0
                    /\ Cached(reg2var') = Cached(reg2var) \cup {v}
            /\ (recency = <<6, 5, 4, 3, 2, 1>> /\ nres = 6 /\ v = 7) => victim' = 1
      ]_allVars

\* C7's case: v1..v7 were resolved in that order and the seventh call evicted v1.
C7_Witness ==
    /\ nres = 7
    /\ recency = <<7, 6, 5, 4, 3, 2, 1>>
    /\ victim = 1
    /\ Cached(reg2var) = 2..7


----------------------------------------------------------------------------
(* Properties of codegen. *)

\* C6: every register that a line of print read for a computed Var written
\* earlier held the value last written to that Var, also when the Var was
\* evicted (spilled to its stack slot) and resolved again (loaded back) in
\* between.
C6_SpillReload == readOK

\* C6's case: the last round resolved a Var that had been evicted, so regname
\* loaded it back from its stack slot, and a line of print then read its
\* register and found the value of the Var.
C6_Witness ==
    /\ readOK
    /\ \E i, j \in 1..Len(lastLines) :
        /\ i < j
        /\ lastLines[i].tag = "load"
        /\ lastLines[j].tag = ""
        /\ lastLines[j].src = lastLines[i].dst
        /\ vars[lastLines[i].dst.of.ix].spilled = "true"

\* The body of the function under translation.
Body == toplevels[1].body

\* The bytes of the slots that the translation of node makes: max(declared
\* size, 8) for a declaration, 8 for each computed Var (a reference, a '+' or
\* '*'), nothing for a literal.
RECURSIVE SlotBytes(_)
RECURSIVE SlotBytesFrom(_, _)
SlotBytesFrom(body, i) ==
    IF i > Len(body) THEN 0 ELSE SlotBytes(body[i]) + SlotBytesFrom(body, i + 1)
SlotBytes(node) ==
    CASE node.kind = "AST_DECL" ->
            (IF node.size > 8 THEN node.size ELSE 8) +
            (IF Len(node.declinit) > 0 THEN SlotBytes(node.declinit[1].initval) ELSE 0)
      [] node.kind = "AST_LVAR" -> 8
      [] node.kind = "AST_COMPOUND_STMT" -> SlotBytesFrom(node.stmts, 1)
      [] node.kind = "AST_RETURN" -> SlotBytes(node.retval)
      [] node.kind = "AST_CONV" -> SlotBytes(node.operand)
      [] node.kind \in {"+", "*"} -> 8 + SlotBytes(node.left) + SlotBytes(node.right)
      [] OTHER -> 0

\* C8: the N of "sub $N, %rsp" and of "add $N, %rsp" is the sum of the sizes
\* max(declared size, 8) of the Mems and of 8 bytes for each computed Var made
\* by the translation of the function.
C8_FrameSize ==
    /\ subN # -1 => subN = SlotBytes(Body)
    /\ addN # -1 => addN = subN

\* What holds of C8 in the code: the frame of the first function a process
\* compiles.
C8_FirstFrame ==
    entry.calls = 1 => C8_FrameSize

\* The names an expression refers to, and whether it is built from '+' and
\* '*' over references only.
RECURSIVE Refs(_)
Refs(e) ==
    CASE e.kind = "AST_LVAR" -> {e.varname}
      [] e.kind \in {"+", "*"} -> Refs(e.left) \cup Refs(e.right)
      [] OTHER -> {}

RECURSIVE PlusTimes(_)
PlusTimes(e) ==
    CASE e.kind = "AST_LVAR" -> TRUE
      [] e.kind \in {"+", "*"} -> PlusTimes(e.left) /\ PlusTimes(e.right)
      [] OTHER -> FALSE

\* The function declares 7 locals and refers to all 7 in its one final
\* return expression, built from '+' and '*'; its emission began with an
\* empty register cache.
SevenLocals ==
    /\ Len(Body.stmts) = 8
    /\ \A i \in 1..7 : Body.stmts[i].kind = "AST_DECL"
    /\ Cardinality({ Body.stmts[i].varname : i \in 1..7 }) = 7
    /\ Body.stmts[8].kind = "AST_RETURN"
    /\ PlusTimes(Body.stmts[8].retval)
    /\ Refs(Body.stmts[8].retval) = { Body.stmts[i].varname : i \in 1..7 }
    /\ entry.cached = 0

\* C9 as claimed: the assembly of such a function has exactly one line with
\* the "# spill" comment.
C9_ExactlyOneSpill ==
    (pc = "done" /\ SevenLocals) => nspill = 1

\* C9 as amended: the expression takes 13 computed Vars (7 loaded references
\* and 6 destinations) and there are 6 registers, so the assembly of such a
\* function has at least seven lines with the "# spill" comment.
C9_AtLeastSevenSpills ==
    (pc = "done" /\ SevenLocals) => nspill >= 7

\* C9's case: such a function was compiled, with seven spills.
C9_Witness ==
    /\ pc = "done"
    /\ SevenLocals
    /\ nspill = 7

\* The Insts that walk emits for node up to the first node of a kind outside
\* the supported set, and whether there is such a node.
NoInst == [n |-> 0, bad |-> FALSE]
AndInst(a) == IF a.bad THEN a ELSE [a EXCEPT !.n = a.n + 1]
AndThen(a, b) == IF a.bad THEN a ELSE [n |-> a.n + b.n, bad |-> b.bad]

RECURSIVE Emitted(_)
RECURSIVE EmittedFrom(_, _)
EmittedFrom(body, i) ==
    IF i > Len(body) THEN NoInst ELSE AndThen(Emitted(body[i]), EmittedFrom(body, i + 1))
Emitted(node) ==
    CASE node.kind = "AST_DECL" ->
            IF Len(node.declinit) > 0 THEN AndInst(Emitted(node.declinit[1].initval))
            ELSE NoInst
      [] node.kind = "AST_LVAR" -> AndInst(NoInst)
      [] node.kind = "AST_COMPOUND_STMT" -> EmittedFrom(node.stmts, 1)
      [] node.kind = "AST_RETURN" -> AndInst(Emitted(node.retval))
      [] node.kind = "AST_CONV" -> Emitted(node.operand)
      [] node.kind \in {"+", "*"} -> AndInst(AndThen(Emitted(node.left), Emitted(node.right)))
      [] node.kind = "AST_LITERAL" -> NoInst
      [] OTHER -> [n |-> 0, bad |-> TRUE]

\* C10: the translation of a tree with a node of an unsupported kind ends in
\* the fatal error when walk reaches that node: the Insts are those emitted
\* before it, none for the node, and no line of assembly is written for the
\* function.
C10_UnsupportedNode ==
    Emitted(Body).bad =>
        /\ pc \in {"start", "fatal"}
        /\ nout = 0
        /\ pc = "fatal" => Len(insts) = entry.insts + Emitted(Body).n

\* C10's case: walk reached a '-' node after it emitted Insts for the nodes
\* before it.
C10_Witness ==
    /\ pc = "fatal"
    /\ Emitted(Body).bad
    /\ Emitted(Body).n > 0
    /\ nout = 0

\* regalloc has run in the call of codegen under way.
Allocated == pc \in {"print", "done"}

\* The stack slots after regalloc: 8 bytes at its off for each computed Var,
\* size bytes at its off for each Mem.
StackSlots ==
    [i \in 1..(Len(vars) + Len(mems)) |->
        IF i <= Len(vars) THEN [off |-> vars[i].off, n |-> 8]
        ELSE [off |-> mems[i - Len(vars)].off, n |-> mems[i - Len(vars)].size]]

\* What holds of C11 in the code: the offsets are pairwise different and the
\* byte ranges of the slots are pairwise disjoint.
C11_Disjoint ==
    Allocated =>
        \A i, j \in DOMAIN StackSlots :
            i < j => \/ StackSlots[i].off + StackSlots[i].n <= StackSlots[j].off
                     \/ StackSlots[j].off + StackSlots[j].n <= StackSlots[i].off

\* C11: before any code is printed every computed Var has a stack offset that
\* is a multiple of 8, for all declared type sizes, and the 8-byte ranges of
\* the Vars and the size-byte ranges of the Mems are pairwise disjoint.
C11_SlotOffsets ==
    /\ Allocated => \A v \in 1..Len(vars) : (0 - vars[v].off) % 8 = 0
    /\ C11_Disjoint

\* The function of scenario 1, int f(){ int a = 1; int b = 2; return a + b; },
\* as the first function the process compiles.
Scenario1 ==
    /\ toplevels = Tree([n |-> 2, shape |-> "left", ops |-> "add", bad |-> 0,
                         variant |-> "plain"])
    /\ entry.calls = 1

\* C12: translating int f(){ int a = 1; int b = 2; return a + b; } gives
\* exactly STORE(mem_a, 1), STORE(mem_b, 2), LOAD(v1, mem_a), LOAD(v2, mem_b),
\* ADD(d, v1, v2), RET(d) in that order, with mem_a and mem_b two distinct
\* Mems (the ones lvars binds to a and b) and v1, v2, d three distinct Vars.
C12_Scenario1 ==
    (Scenario1 /\ pc \in {"compile", "print", "done"}) =>
        \E ma, mb \in 1..Len(mems) : \E v1, v2, d \in 1..Len(vars) :
            /\ ma # mb
            /\ Cardinality({v1, v2, d}) = 3
            /\ map_get_nostack(lvars, VarName(1)) = ma
            /\ map_get_nostack(lvars, VarName(2)) = mb
            /\ insts = << Inst("STORE", MemRef(ma), Literal(1), NoVar),
                          Inst("STORE", MemRef(mb), Literal(2), NoVar),
                          Inst("LOAD", VarRef(v1), MemRef(ma), NoVar),
                          Inst("LOAD", VarRef(v2), MemRef(mb), NoVar),
                          Inst("ADD", VarRef(d), VarRef(v1), VarRef(v2)),
                          Inst("RET", VarRef(d), NoVar, NoVar) >>

\* C12's case: the function of scenario 1 was translated and compiled.
C12_Witness ==
    /\ Scenario1
    /\ pc = "done"
    /\ Len(insts) = 6
    /\ insts[5].kind = "ADD"

----------------------------------------------------------------------------
(* Properties of the iteration. *)

\* map_next returned NULL: the iteration that map_iter began is over.
Drained == iter.map # 0 /\ iter.cur = 0

\* The number of parent links from table t to the nearest table binding key.
RECURSIVE Hops(_, _)
Hops(t, key) ==
    IF bind[t][key] # NULL \/ maps[t].parent = 0 THEN 0
    ELSE 1 + Hops(maps[t].parent, key)

\* C13: a fresh iterator on table T driven by map_next until it returns NULL
\* yields every key bound in T or in an ancestor of T exactly once, with the
\* value of its innermost binding, and the keys of a more-nested table before
\* the keys of its ancestors.
C13_ShadowIteration ==
    Drained =>
        /\ { yielded[i][1] : i \in DOMAIN yielded } =
                { k \in Keys : Nearest(iter.map, k) # NULL }
        /\ \A i, j \in DOMAIN yielded : i # j => yielded[i][1] # yielded[j][1]
        /\ \A i \in DOMAIN yielded : yielded[i][2] = Nearest(iter.map, yielded[i][1])
        /\ \A i, j \in DOMAIN yielded :
                i < j => Hops(iter.map, yielded[i][1]) <= Hops(iter.map, yielded[j][1])

\* Every table holds each key it binds in one slot, with the value bound, and
\* no other key: the state of the tables that C4 says is the only one.
TablesExact ==
    /\ C4_KeyUnique
    /\ \A t \in DOMAIN maps : \A k \in Keys : map_get_nostack(maps[t], k) = bind[t][k]

\* What holds of C13 in the code: the iteration over tables without
\* duplicate or stale slots.
C13_ExactTables == TablesExact => C13_ShadowIteration

----------------------------------------------------------------------------
(* Properties of the rehash. *)

\* The key/value pairs the slots of m hold, and its tombstone slots.
Pairs(m) == { <<m.key[i], m.val[i]>> : i \in { j \in 0..(m.size - 1) : Occupied(m, j) } }
Tombstones(m) == { i \in 0..(m.size - 1) : m.key[i] = TOMBSTONE }

PowerOfTwo(n) == \E e \in 0..16 : n = 2 ^ e

\* C14 for one map_put(key, val) that takes the allocated table m to n. It
\* rehashes exactly when 10 * nused >= 7 * size at entry: then the capacity
\* stays when 20 * nelem < 7 * size and doubles otherwise, n has no tombstone,
\* n.nused = n.nelem, and n holds the pairs of m with key bound to val; else
\* the put writes one slot and leaves every other slot of m as it was.
RehashPolicy(m, n, key, val) ==
    /\ PowerOfTwo(m.size) /\ PowerOfTwo(n.size)
    /\ 10 * m.nused >= 7 * m.size =>
            /\ n.size = IF 20 * m.nelem < 7 * m.size THEN m.size ELSE 2 * m.size
            /\ Tombstones(n) = {}
            /\ n.nused = n.nelem
            /\ n.nelem = Cardinality({ j \in 0..(n.size - 1) : Occupied(n, j) })
            /\ Pairs(n) \subseteq Pairs(m) \cup {<<key, val>>}
            /\ { p \in Pairs(m) : p[1] # key } \cup {<<key, val>>} \subseteq Pairs(n)
    /\ 10 * m.nused < 7 * m.size =>
            /\ n.size = m.size
            /\ \E i \in 0..(m.size - 1) :
                    \A j \in 0..(m.size - 1) \ {i} : n.key[j] = m.key[j] /\ n.val[j] = m.val[j]

\* C14: a map_put on an allocated table rehashes exactly when nused >= 0.7 *
\* capacity at entry; the new capacity is the old one when nelem < 0.35 *
\* capacity and twice the old one otherwise, so it is always a power of two;
\* after the rehash the table holds exactly the live pairs it had before, no
\* tombstone, and nused equals nelem.
C14_RehashPolicy ==
    [][ lastop'[1] = "map_put" =>
            RehashPolicy(maps[lastop'[2]], maps'[lastop'[2]], lastop'[3], lastop'[4])
      ]_allVars

\* C14's cases: a put has just rehashed a thinned-out table into the same
\* capacity (the tombstones of the removed keys are gone), or a dense table
\* into twice the capacity.
C14_Witness ==
    /\ lastop[1] = "map_put"
    /\ Tombstones(maps[1]) = {}
    /\ maps[1].nused = maps[1].nelem
    /\ \/ maps[1].size = INIT_SIZE /\ map_get_nostack(maps[1], FillKeys[1]) = NULL
       \/ maps[1].size = 2 * INIT_SIZE

----------------------------------------------------------------------------
(* Properties of a second call of codegen. *)

\* C15: a second call of codegen in one process behaves as if run alone: its
\* Func holds only the Insts translated from its own tree, its frame size
\* counts only the Mems and Vars made for its own function, and it starts
\* from an empty register cache and an empty scope table.
C15_FreshState ==
    entry.calls = 2 =>
        /\ entry.cached = 0
        /\ pc = "start" => map_len(lvars) = 0
        /\ (pc \in {"compile", "print", "done"} /\ ~Emitted(Body).bad) =>
                Len(insts) = Emitted(Body).n
        /\ subN # -1 => subN = SlotBytes(Body)

----------------------------------------------------------------------------
(* Properties of one regname call. *)

\* The register that the cache r2v holds the Var x in.
RegOf(r2v, x) == r2v[FirstSlot(r2v, x, 0)].reg

\* The lines of a regname(v) call that missed with all slots taken and
\* evicted x: one spill move of x's register to x's stack offset and, when
\* reload holds, one load of v's stack offset into that register.
SpillThenLoad(ls, v, x, reload) ==
    /\ Len(ls) = IF reload THEN 2 ELSE 1
    /\ ls[1] = Line("movq", Reg(RegOf(reg2var, x), VarRef(x)),
                    Slot(vars[x].off, VarRef(x)), "spill")
    /\ reload => ls[2] = Line("movq", Slot(vars[v].off, VarRef(v)),
                              Reg(RegOf(reg2var, x), VarRef(v)), "load")

\* What holds of C16 in the code: as C16, but a Var resolved for the first
\* time gets a load or not, as the read of its unwritten spilled field yields.
C16_ExceptFirstResolve ==
    [][ nres' = nres + 1 =>
        LET v == recency'[1]
            seen == \E i \in DOMAIN recency : recency[i] = v
        IN  IF v \notin Cached(reg2var) /\ Cardinality(Cached(reg2var)) = NUMREGS
            THEN /\ victim' \in Cached(reg2var)
                 /\ vars'[victim'].spilled = "true"
                 /\ \/ SpillThenLoad(lastLines', v, victim', seen)
                    \/ ~seen /\ SpillThenLoad(lastLines', v, victim', TRUE)
            ELSE lastLines' = <<>>
      ]_allVars

\* C16: a regname(v) call that misses with all 6 slots taken writes exactly
\* one spill move, of the evicted Var's register to the evicted Var's stack
\* offset, and marks that Var spilled; it then writes a load of v's stack
\* offset into the freed register if and only if v was evicted earlier, and
\* none for a Var resolved for the first time. A hit, or a miss with an empty
\* slot, writes no line.
C16_ReloadOnMiss ==
    [][ nres' = nres + 1 =>
        LET v == recency'[1]
            seen == \E i \in DOMAIN recency : recency[i] = v
        IN  IF v \notin Cached(reg2var) /\ Cardinality(Cached(reg2var)) = NUMREGS
            THEN /\ victim' \in Cached(reg2var)
                 /\ vars'[victim'].spilled = "true"
                 /\ SpillThenLoad(lastLines', v, victim', seen)
            ELSE lastLines' = <<>>
      ]_allVars

----------------------------------------------------------------------------
(* Properties of removal. *)

\* C17: on a table without parent, a key that was removed and not put since
\* (like a key never put) is looked up as NULL, whatever puts and removes came
\* before; the value it had does not become visible again.
C17_RemoveHides ==
    \A t \in DOMAIN maps : \A k \in Keys :
        (maps[t].parent = 0 /\ bind[t][k] = NULL) => map_get(maps, t, k) = NULL

\* What holds of C17 in the code: right after map_remove(t, k) of a key held
\* in at most one slot, the lookup of k in t yields NULL.
C17_UnlessDuplicate ==
    [][ (lastop'[1] = "map_remove" /\ maps[lastop'[2]].parent = 0 /\ C4_KeyUnique) =>
            map_get(maps', lastop'[2], lastop'[3]) = NULL
      ]_allVars

----------------------------------------------------------------------------
(* Properties of the slots of the register cache. *)

\* The cached Vars in the order of their slots.
SlotOrder(r2v) ==
    SelectSeq([i \in 1..NUMREGS |-> r2v[i - 1].v], LAMBDA x : x # 0)

\* s without the Vars of the set xs.
Without(s, xs) == SelectSeq(s, LAMBDA x : x \notin xs)

\* The occupied slots are a prefix of the array, no Var is in two slots, no
\* register name is in two occupied slots, and every register name is one of
\* rdi, rsi, rdx, rcx, r8, r9.
WellFormed(r2v) ==
    /\ \A i, j \in 0..(NUMREGS - 1) : (i < j /\ r2v[j].v # 0) => r2v[i].v # 0
    /\ \A i, j \in 0..(NUMREGS - 1) :
            (i # j /\ r2v[i].v # 0) => (r2v[i].v # r2v[j].v /\ r2v[i].reg # r2v[j].reg)
    /\ \A i \in 0..(NUMREGS - 1) :
            r2v[i].v # 0 => r2v[i].reg \in {"rdi", "rsi", "rdx", "rcx", "r8", "r9"}

\* C18: after any sequence of regname calls the register cache is well
\* formed (occupied slots a prefix, no Var twice, no register name twice,
\* only the six argument registers), and each call leaves the Var it resolved
\* in slot 0 and the other cached Vars in the order they had.
C18_CacheWellFormed ==
    /\ [] WellFormed(reg2var)
    /\ [][ nres' = nres + 1 =>
            /\ reg2var'[0].v = recency'[1]
            /\ Without(SlotOrder(reg2var'), {recency'[1]}) =
                    Without(SlotOrder(reg2var), {recency'[1], victim'})
         ]_allVars

\* C18's case: with all six slots taken, a call has just evicted a Var and
\* put the Var it resolved, one that had been evicted before, in slot 0.
C18_Witness ==
    /\ Len(SlotOrder(reg2var)) = NUMREGS
    /\ victim # 0
    /\ reg2var[0].v = recency[1]
    /\ vars[recency[1]].spilled = "true"
    /\ WellFormed(reg2var)

----------------------------------------------------------------------------
(* Properties of the probe loops. *)

\* The slots of m that hold a key.
Live(m) == { i \in 0..(m.size - 1) : Occupied(m, i) }

\* C19: an allocated table always has a slot that is NULL (neither a key nor
\* a tombstone), so for every key, in the table or not, the probe loops of
\* map_get and map_remove, the probe loop of the next map_put and the
\* re-insertion loop of its rehash come to an end (the rehash places every
\* live slot).
C19_ProbeTermination ==
    \A t \in DOMAIN maps :
        maps[t].alloc =>
            /\ \E i \in 0..(maps[t].size - 1) : maps[t].key[i] = NULLKEY
            /\ \A k \in Keys : FindSlot(maps[t], k, HashIdx(k, maps[t].size), 0) # -2
            /\ \A r \in { maybe_rehash(maps[t]) } :
                    /\ Cardinality(Live(r)) = Cardinality(Live(maps[t]))
                    /\ \A k \in Keys : PutSlot(r, k, HashIdx(k, r.size), 0) # -2

\* C19's case: a table at its fullest (12 of 16 slots used, tombstones among
\* them) in which the probe for a key not in the table wraps around the end
\* of the array and ends at a NULL slot.
C19_Witness ==
    /\ maps[1].size = INIT_SIZE
    /\ 10 * maps[1].nused > 7 * maps[1].size
    /\ Tombstones(maps[1]) # {}
    /\ \E k \in FreeKeys :
        /\ HashIdx(k, maps[1].size) = maps[1].size - 1
        /\ maps[1].key[HashIdx(k, maps[1].size)] # NULLKEY
        /\ FindSlot(maps[1], k, HashIdx(k, maps[1].size), 0) = -1

----------------------------------------------------------------------------
(* Properties of the lowering of one ADD or MUL. *)

\* The last step was the round of print on an ADD or MUL.
LoweredArith ==
    /\ pc = "print"
    /\ ip > 1
    /\ insts[ip - 1].kind \in {"ADD", "MUL"}

\* The lines that print wrote in the last step, without those of regname.
PrintLines == SelectSeq(lastLines, LAMBDA l : l.tag = "")

\* C20: while print lowers one ADD or MUL, no regname call evicts a Var whose
\* register name was returned for a line not yet written, in either order of
\* the two calls of a line, and the destination has the same register in both
\* lines.
C20_OperandsKept ==
    LoweredArith =>
        /\ \A i \in DOMAIN resolves : resolves[i].evicted \notin resolves[i].held
        /\ Len(PrintLines) = 2
        /\ PrintLines[1].dst.of = insts[ip - 1].arg1
        /\ PrintLines[2].dst.of = insts[ip - 1].arg1
        /\ PrintLines[1].dst.r = PrintLines[2].dst.r

\* C20's case: an ADD or MUL of two Vars was lowered with the cache full,
\* both calls for its first line missed and evicted a Var, the second of them
\* while the register name of the other operand was held for that line.
C20_Witness ==
    /\ LoweredArith
    /\ Len(resolves) = 4
    /\ resolves[1].evicted # 0
    /\ resolves[2].evicted # 0
    /\ resolves[2].held = {resolves[1].v}
    /\ PrintLines[1].dst.r = PrintLines[2].dst.r

====
